---- MODULE Spec2Model ----
(***************************************************************************)
(* A model of the mb_pandas utilities: the chunked merge, the loader (the  *)
(* current one of mb/pandas/dfload.py and the legacy one of                *)
(* mb_pandas/src/dfload.py), duplicate detection/removal and the removal   *)
(* of auto-index ("Unnamed") columns.                                      *)
(*                                                                         *)
(* A table is a record [columns, rows]: columns is the ordered sequence of *)
(* column names, rows the ordered sequence of rows, each row a function    *)
(* from the column names to cell values.                                   *)
(***************************************************************************)
EXTENDS Integers, Sequences, FiniteSets, TLC

VARIABLES
    \* ---- merge_chunk (mb/pandas/transform.py) ----
    mc_pc,        \* position inside merge_chunk
    a, b,         \* the two tables as passed by the caller
    chunksize,    \* rows per chunk
    how,          \* the merge option handed through **kwargs
    df1, df2,     \* the local names after the optional swap
    list_df,      \* the chunks of df2
    result,       \* the accumulating result
    mc_i,         \* number of chunks merged so far
    mc_err,       \* the exception raised, "none" when none
    mc_merges,    \* number of pd.merge calls made
    \* ---- load_any_df (mb/pandas/dfload.py and mb_pandas/src/dfload.py) ----
    variant,      \* "current" (mb/pandas) or "legacy" (mb_pandas/src)
    file_path,    \* the argument: [kind, ext, table], kind "table", "path"
                  \* or "other"
    fs,           \* the file behind the path: [exists, content, table]
    literal_ast_columns,  \* columns to convert (<<>> when None)
    loop_running, \* an event loop is running in the calling context
    ld_pc,        \* position of the calling thread inside load_any_df
    worker,       \* the executor's thread: "none", "running", "finished"
    co_pc,        \* the coroutine: "none", "start", "reading", "ok", "failed"
    co_thread,    \* the thread that runs the coroutine
    co_exc,       \* the exception the asynchronous path ended with
    co_df,        \* the table the asynchronous path produced
    reads,        \* every file read started: [thread, api], in order
    in_flight,    \* file reads started and not yet finished
    ld_err,       \* the exception that reached the caller, "none" when none
    ld_ret,       \* the returned table
    ld_calls,     \* calls made so far in this run
    ld_prev,      \* the table the previous call returned
    \* ---- check_drop_duplicates (both transform.py files) ----
    cdd_variant,  \* "current" (mb/pandas) or "legacy" (mb_pandas/src)
    cdd_df,       \* the table passed in
    columns,      \* the argument: kind "str" with a single name, or kind
                  \* "list" with a sequence of names
    drop,         \* the drop flag
    cdd_pc,       \* position inside check_drop_duplicates
    duplicates,   \* df[df.duplicated(subset=columns, keep=False)]
    cdd_scans,    \* number of duplicated()/drop_duplicates() calls made
    cdd_err,      \* the exception raised, "none" when none
    cdd_ret,      \* the returned table
    \* ---- remove_unnamed (both transform.py files) ----
    ru_variant,   \* "current" (mb/pandas) or "legacy" (mb_pandas/src)
    ru_in,        \* the table first passed in
    ru_df,        \* the table after the applications made so far
    ru_first,     \* the table the first application returned
    ru_n,         \* number of applications made
    \* ---- rename_columns (both transform.py files) ----
    rn_variant,   \* "current" (mb/pandas) or "legacy" (mb_pandas/src)
    rn_df,        \* the table passed in; its rows are tuples of cells, one
                  \* cell per column, in column order
    rn_arg2,      \* the second positional argument (new_column)
    rn_arg3,      \* the third positional argument (old_column)
    rn_pc,        \* "call", "done" or "raised"
    rn_err,       \* the exception raised, "none" when none
    rn_ret,       \* the returned table
    \* ---- check_null / check_file ----
    cn_variant,   \* "current" (mb/pandas/transform.py), "legacy"
                  \* (mb_pandas/src/transform.py) or "check_file" (checker.py)
    cn_in,        \* the table load_any_df(file_path) yields; with the usual
                  \* fields it has dtypes, the dtype of each column
    fillna,       \* the fillna flag
    copy_on_write,\* pandas runs with copy-on-write (the default from 3.0 on)
    cn_pc,        \* "call", "loop", "done" or "raised"
    cn_df,        \* the local df
    cn_i,         \* columns the loop has gone through
    cn_err,       \* the exception raised, "none" when none
    cn_ret,       \* the returned value: kind "table" with the table, or
                  \* kind "None"
    \* ---- get_dftype (both transform.py files) ----
    gd_variant,   \* "current" (mb/pandas) or "legacy" (mb_pandas/src)
    gd_s,         \* the argument s: whether it is a Series, its dtype, and
                  \* the Python type of each of its values
    gd_pc,        \* "call", "done" or "raised"
    gd_err,       \* the exception raised, "none" when none
    gd_ret,       \* the returned string, "" before the return
    \* ---- srun (aio.py) ----
    sr_awaits,    \* the await points of async_func in order: TRUE where the
                  \* awaited object suspends, FALSE where it completes at once
    sr_outcome,   \* what async_func does after its last await: return a
                  \* value, or raise
    sr_accepts,   \* async_func accepts the extra positional context_vars
    sr_pc,        \* "call", "send", "in_send", "close", "end", "done", "raised"
    core,         \* the coroutine object: "none", "created", "running",
                  \* "suspended", "finished" or "closed"
    core_pos,     \* await points the coroutine has gone through
    sr_err,       \* the exception srun raised, "none" when none
    sr_ret,       \* what srun returned: kind "value" with the value, or
                  \* kind "None"
    \* ---- read_csv_asyn (csv.py) ----
    rc_filepath,  \* the path all calls read: whether it ends in .csv.zip,
                  \* whether the file exists, whether it has a .meta sidecar
    rc_pc,        \* per call: "none" (not made), "created" (the coroutine
                  \* exists, its body has not run) or "raised"
    rc_err,       \* per call: the exception it raised, "none" when none
    rc_lock,      \* the calls that hold the read lock on the path
    rc_acquired   \* the calls that have acquired the read lock at some time

mergeVars == <<mc_pc, a, b, chunksize, how, df1, df2, list_df, result, mc_i,
               mc_err, mc_merges>>

loadVars == <<variant, file_path, fs, literal_ast_columns, loop_running, ld_pc,
              worker, co_pc, co_thread, co_exc, co_df, reads, in_flight,
              ld_err, ld_ret, ld_calls, ld_prev>>

dupVars == <<cdd_variant, cdd_df, columns, drop, cdd_pc, duplicates, cdd_scans,
             cdd_err, cdd_ret>>

ruVars == <<ru_variant, ru_in, ru_df, ru_first, ru_n>>

rnVars == <<rn_variant, rn_df, rn_arg2, rn_arg3, rn_pc, rn_err, rn_ret>>

cnVars == <<cn_variant, cn_in, fillna, copy_on_write, cn_pc, cn_df, cn_i, cn_err, cn_ret>>

gdVars == <<gd_variant, gd_s, gd_pc, gd_err, gd_ret>>

srVars == <<sr_awaits, sr_outcome, sr_accepts, sr_pc, core, core_pos, sr_err, sr_ret>>

rcVars == <<rc_filepath, rc_pc, rc_err, rc_lock, rc_acquired>>

vars == <<mergeVars, loadVars, dupVars, ruVars, rnVars, cnVars, gdVars,
          srVars, rcVars>>

\* what the actions of one group leave alone
notMerge == <<loadVars, dupVars, ruVars, rnVars, cnVars, gdVars, srVars,
              rcVars>>
notLoad == <<mergeVars, dupVars, ruVars, rnVars, cnVars, gdVars, srVars,
             rcVars>>
notDup == <<mergeVars, loadVars, ruVars, rnVars, cnVars, gdVars, srVars,
            rcVars>>
notRu == <<mergeVars, loadVars, dupVars, rnVars, cnVars, gdVars, srVars,
           rcVars>>
notRn == <<mergeVars, loadVars, dupVars, ruVars, cnVars, gdVars, srVars,
           rcVars>>
notCn == <<mergeVars, loadVars, dupVars, ruVars, rnVars, gdVars, srVars,
           rcVars>>
notGd == <<mergeVars, loadVars, dupVars, ruVars, rnVars, cnVars, srVars,
           rcVars>>
notSr == <<mergeVars, loadVars, dupVars, ruVars, rnVars, cnVars, gdVars,
           rcVars>>
notRc == <<mergeVars, loadVars, dupVars, ruVars, rnVars, cnVars, gdVars,
           srVars>>

(***************************************************************************)
(* Bounds                                                                  *)
(***************************************************************************)
MaxRows == 2      \* rows per merge input
MaxKey == 1       \* merge keys are 0..MaxKey
MaxChunk == 3     \* chunk sizes are 1..MaxChunk

(***************************************************************************)
(* Generic helpers                                                         *)
(***************************************************************************)
Range(s) == {s[i] : i \in DOMAIN s}

Min(x, y) == IF x <= y THEN x ELSE y

SeqsUpTo(S, n) == UNION {[1..k -> S] : k \in 0..n}

RECURSIVE Flatten(_)
Flatten(ss) == IF ss = <<>> THEN <<>> ELSE Head(ss) \o Flatten(Tail(ss))

\* The missing-value marker pandas puts into cells a join could not fill.
NaN == -1

EmptyTable == [columns |-> <<>>, rows |-> <<>>]

NRows(t) == Len(t.rows)

(***************************************************************************)
(* pd.merge(left, right, how=...) on the common columns (on=None).         *)
(* inner/left keep the order of the left keys, right the order of the      *)
(* right keys, outer sorts by key.                                         *)
(***************************************************************************)
MergeColumns(left, right) ==
    LET on == Range(left.columns) \cap Range(right.columns)
    IN  left.columns \o SelectSeq(right.columns, LAMBDA c : c \notin on)

pd_merge(left, right, h) ==
    LET on == Range(left.columns) \cap Range(right.columns)
        cols == MergeColumns(left, right)
        cs == Range(cols)
        Agree(l, r) == \A c \in on : l[c] = r[c]
        Both(l, r) == [c \in cs |-> IF c \in DOMAIN l THEN l[c] ELSE r[c]]
        Only(x) == [c \in cs |-> IF c \in DOMAIN x THEN x[c] ELSE NaN]
        RightFor(l) == SelectSeq(right.rows, LAMBDA r : Agree(l, r))
        LeftFor(r) == SelectSeq(left.rows, LAMBDA l : Agree(l, r))
        PairsL(l) == [j \in 1..Len(RightFor(l)) |-> Both(l, RightFor(l)[j])]
        PairsR(r) == [j \in 1..Len(LeftFor(r)) |-> Both(LeftFor(r)[j], r)]
        inner == Flatten([i \in 1..Len(left.rows) |-> PairsL(left.rows[i])])
        leftj == Flatten([i \in 1..Len(left.rows) |->
                    IF RightFor(left.rows[i]) = <<>>
                    THEN <<Only(left.rows[i])>> ELSE PairsL(left.rows[i])])
        rightj == Flatten([i \in 1..Len(right.rows) |->
                    IF LeftFor(right.rows[i]) = <<>>
                    THEN <<Only(right.rows[i])>> ELSE PairsR(right.rows[i])])
        kc == CHOOSE c \in on : TRUE
        WithKey(t, v) == SelectSeq(t.rows, LAMBDA r : r[kc] = v)
        ForKey(v) ==
            IF WithKey(right, v) = <<>>
            THEN [j \in 1..Len(WithKey(left, v)) |-> Only(WithKey(left, v)[j])]
            ELSE IF WithKey(left, v) = <<>>
            THEN [j \in 1..Len(WithKey(right, v)) |-> Only(WithKey(right, v)[j])]
            ELSE Flatten([i \in 1..Len(WithKey(left, v)) |->
                            PairsL(WithKey(left, v)[i])])
        outer == Flatten([v \in 1..(MaxKey + 1) |-> ForKey(v - 1)])
    IN  [columns |-> cols,
         rows |-> CASE h = "inner" -> inner
                    [] h = "left" -> leftj
                    [] h = "right" -> rightj
                    [] h = "outer" -> outer]

\* pd.concat([x, y], ignore_index=True) of two tables with the same columns
pd_concat(x, y) == [columns |-> x.columns, rows |-> x.rows \o y.rows]

\* Chunks without the last chunk when it is shorter than n
Chunks_FullOnly(t, n) ==
    [j \in 1..(NRows(t) \div n) |->
        [columns |-> t.columns,
         rows |-> SubSeq(t.rows, (j - 1) * n + 1, j * n)]]

\* [df2[i:i+chunksize] for i in range(0, df2.shape[0], chunksize)]
Chunks(t, n) ==
    [j \in 1..((NRows(t) + n - 1) \div n) |->
        [columns |-> t.columns,
         rows |-> SubSeq(t.rows, (j - 1) * n + 1, Min(j * n, NRows(t)))]]

\* the rows of a table as a set
RowSet(t) == Range(t.rows)

(***************************************************************************)
(* merge_chunk, one action per step of the function                        *)
(***************************************************************************)
Hows == {"inner", "left", "right", "outer"}

\* a two-column table: the first column holds the given keys, the second a
\* payload that tells the rows apart
TableOf(cols, keys) ==
    [columns |-> cols,
     rows |-> [i \in 1..Len(keys) |-> (cols[1] :> keys[i]) @@ (cols[2] :> i)]]

MergeInputsA == {TableOf(<<"k", "x">>, ks) : ks \in SeqsUpTo(0..MaxKey, MaxRows)}
MergeInputsB ==
    {TableOf(cols, ks) : cols \in {<<"k", "y">>, <<"z", "y">>},
                         ks \in SeqsUpTo(0..MaxKey, MaxRows)}

MergeInit ==
    /\ mc_pc = "start"
    /\ a \in MergeInputsA
    /\ b \in MergeInputsB
    /\ chunksize \in 1..MaxChunk
    /\ how \in Hows
    /\ df1 = a
    /\ df2 = b
    /\ list_df = <<>>
    /\ result = EmptyTable
    /\ mc_i = 0
    /\ mc_err = "none"
    /\ mc_merges = 0

\* lines 38-40: the smaller table becomes the merge base
SwapIfLarger ==
    /\ mc_pc = "start"
    /\ IF NRows(df1) > NRows(df2)
       THEN df1' = df2 /\ df2' = df1
       ELSE UNCHANGED <<df1, df2>>
    /\ mc_pc' = "check"
    /\ UNCHANGED <<a, b, chunksize, how, list_df, result, mc_i, mc_err, mc_merges>>
    /\ UNCHANGED notMerge

merge_on == Range(df1.columns) \cap Range(df2.columns)

\* CheckAndChunk without the test of lines 43-44
CheckAndChunk_NoCheck ==
    /\ mc_pc = "check"
    /\ list_df' = Chunks(df2, chunksize)
    /\ mc_pc' = "first"
    /\ UNCHANGED <<a, b, chunksize, how, df1, df2, result, mc_i, mc_merges, mc_err>>
    /\ UNCHANGED notMerge

\* lines 42-47: no common column raises; otherwise df2 is cut into chunks
CheckAndChunk ==
    /\ mc_pc = "check"
    /\ IF merge_on = {}
       THEN /\ mc_err' = "ValueError"
            /\ mc_pc' = "raised"
            /\ UNCHANGED list_df
       ELSE /\ list_df' = Chunks(df2, chunksize)
            /\ mc_pc' = "first"
            /\ UNCHANGED mc_err
    /\ UNCHANGED <<a, b, chunksize, how, df1, df2, result, mc_i, mc_merges>>
    /\ UNCHANGED notMerge

\* line 53: list_df[0] of an empty list raises IndexError; pd.merge itself
\* raises MergeError for tables without a common column
MergeFirst ==
    /\ mc_pc = "first"
    /\ IF list_df = <<>>
       THEN /\ mc_err' = "IndexError"
            /\ mc_pc' = "raised"
            /\ UNCHANGED <<result, mc_i, mc_merges>>
       ELSE IF merge_on = {}
       THEN /\ mc_err' = "MergeError"
            /\ mc_pc' = "raised"
            /\ mc_merges' = mc_merges + 1
            /\ UNCHANGED <<result, mc_i>>
       ELSE /\ result' = pd_merge(df1, list_df[1], how)
            /\ mc_i' = 1
            /\ mc_merges' = mc_merges + 1
            /\ mc_pc' = "loop"
            /\ UNCHANGED mc_err
    /\ UNCHANGED <<a, b, chunksize, how, df1, df2, list_df>>
    /\ UNCHANGED notMerge

\* lines 56-58: one iteration of the loop over the remaining chunks
MergeNext ==
    /\ mc_pc = "loop"
    /\ mc_i < Len(list_df)
    /\ result' = pd_concat(result, pd_merge(df1, list_df[mc_i + 1], how))
    /\ mc_i' = mc_i + 1
    /\ mc_merges' = mc_merges + 1
    /\ UNCHANGED <<mc_pc, a, b, chunksize, how, df1, df2, list_df, mc_err>>
    /\ UNCHANGED notMerge

\* line 60
MergeReturn ==
    /\ mc_pc = "loop"
    /\ mc_i = Len(list_df)
    /\ mc_pc' = "done"
    /\ UNCHANGED <<a, b, chunksize, how, df1, df2, list_df, result, mc_i,
                   mc_err, mc_merges>>
    /\ UNCHANGED notMerge

(***************************************************************************)
(* Column names are sequences of tokens, so that the anchored pattern      *)
(* '^Unnamed' (the name starts with "Unnamed") differs from a pattern      *)
(* that matches anywhere in the name.                                      *)
(***************************************************************************)
ColA == <<"a">>
ColC == <<"c">>
ColZ == <<"z">>
ColU0 == <<"Unnamed", ": 0">>
ColU1 == <<"Unnamed", ": 1">>
ColMid == <<"my", "Unnamed">>

\* the pattern without its anchor: "Unnamed" anywhere in the name
Unnamed_Anywhere(c) == \E i \in DOMAIN c : c[i] = "Unnamed"

\* df.columns.str.contains('^Unnamed')
Unnamed(c) == Len(c) >= 1 /\ c[1] = "Unnamed"

\* the table restricted to the given columns, in the given order
SelectColumns(df, cols) ==
    [columns |-> cols,
     rows |-> [i \in DOMAIN df.rows |-> [c \in Range(cols) |-> df.rows[i][c]]]]

\* df.loc[:, ~df.columns.str.contains('^Unnamed')]
loc_not_unnamed(df) ==
    SelectColumns(df, SelectSeq(df.columns, LAMBDA c : ~Unnamed(c)))

(***************************************************************************)
(* Cells and ast.literal_eval: a cell is [type, text]; a string cell whose *)
(* text is a Python literal evaluates to the value of that literal, any    *)
(* other cell makes literal_eval raise (ValueError or SyntaxError).        *)
(***************************************************************************)
Cell(ty, tx) == [type |-> ty, text |-> tx]

LiteralType(tx) ==
    CASE tx = "[1, 2]" -> "list"
      [] tx = "0" -> "int"
      [] OTHER -> "invalid"

literal_ok(x) == x.type = "str" /\ LiteralType(x.text) # "invalid"

literal_eval(x) == Cell(LiteralType(x.text), x.text)

\* lines 131-142 of load_any_df: the conversion loop; err is the exception
\* raised inside the try block, "none" when every column converted
RECURSIVE ConvertColumns(_, _)
ConvertColumns(df, cols) ==
    IF cols = <<>> THEN [err |-> "none", df |-> df]
    ELSE LET col == Head(cols) IN
         IF col \notin Range(df.columns) THEN [err |-> "KeyError", df |-> df]
         ELSE IF \E i \in DOMAIN df.rows : ~literal_ok(df.rows[i][col])
         THEN [err |-> "ValueError", df |-> df]
         ELSE ConvertColumns(
                [df EXCEPT !.rows = [i \in DOMAIN df.rows |->
                    [df.rows[i] EXCEPT ![col] = literal_eval(@)]]],
                Tail(cols))

\* load_df_async, lines 81-83: except Exception as e: raise ValueError(...)
LoadDfAsyncExcept(e) == "ValueError"

\* load_any_df, lines 148-150: except Exception as e: raise ValueError(...)
LoadAnyDfExcept(e) == "ValueError"

(***************************************************************************)
(* The loader's inputs                                                     *)
(***************************************************************************)
MaxCalls == 2     \* load_any_df calls in one run (the second reloads the result)

SampleTable(cols, tx) ==
    [columns |-> cols,
     rows |-> <<[c \in Range(cols) |->
                  IF c = ColA THEN Cell("str", tx) ELSE Cell("int", "0")]>>]

LoadTables ==
    {SampleTable(cols, tx) : cols \in {<<ColA, ColC>>, <<ColU0, ColA, ColC>>},
                             tx \in {"[1, 2]", "1 +"}}

NoFile == [exists |-> FALSE, content |-> "garbage", table |-> EmptyTable]

Files ==
    {NoFile} \cup
    {[exists |-> TRUE, content |-> ct, table |-> t] :
        ct \in {"csv", "parquet", "garbage"}, t \in LoadTables}

PathArg(e) == [kind |-> "path", ext |-> e, table |-> EmptyTable]
TableArg(t) == [kind |-> "table", ext |-> "", table |-> t]
OtherArg == [kind |-> "other", ext |-> "", table |-> EmptyTable]

LiteralOptions == {<<>>, <<ColA>>, <<ColC>>, <<ColZ>>, <<ColU0>>, <<ColA, ColZ>>}

LoadFinished == ld_pc \in {"done", "raised"}

LoadInit ==
    /\ variant \in {"current", "legacy"}
    /\ \/ /\ file_path \in {PathArg(e) : e \in {"csv", "parquet", "txt"}}
          /\ fs \in Files
       \/ /\ file_path \in {TableArg(t) : t \in LoadTables} \cup {OtherArg}
          /\ fs = NoFile
    /\ literal_ast_columns \in LiteralOptions
    /\ loop_running \in BOOLEAN
    /\ ld_pc = "call"
    /\ worker = "none"
    /\ co_pc = "none"
    /\ co_thread = "none"
    /\ co_exc = "none"
    /\ co_df = EmptyTable
    /\ reads = <<>>
    /\ in_flight = 0
    /\ ld_err = "none"
    /\ ld_ret = EmptyTable
    /\ ld_calls = 1
    /\ ld_prev = EmptyTable

LoadInputs == <<variant, file_path, fs, literal_ast_columns, loop_running,
                ld_calls, ld_prev>>

(***************************************************************************)
(* load_any_df of mb/pandas/dfload.py                                      *)
(***************************************************************************)
\* LoadEnter normalising a table argument like a loaded file (line 128)
LoadEnter_Normalises ==
    /\ variant = "current"
    /\ ld_pc = "call"
    /\ CASE file_path.kind = "table" ->
                ld_ret' = loc_not_unnamed(file_path.table) /\ ld_pc' = "done"
                /\ UNCHANGED ld_err
         [] file_path.kind = "other" ->
                ld_err' = "TypeError" /\ ld_pc' = "raised" /\ UNCHANGED ld_ret
         [] OTHER ->
                ld_pc' = "detect" /\ UNCHANGED <<ld_ret, ld_err>>
    /\ UNCHANGED <<LoadInputs, worker, co_pc, co_thread, co_exc, co_df, reads,
                   in_flight>>
    /\ UNCHANGED notLoad

\* lines 104-109: a table is returned as it is; anything but a str raises
LoadEnter ==
    /\ variant = "current"
    /\ ld_pc = "call"
    /\ CASE file_path.kind = "table" ->
                ld_ret' = file_path.table /\ ld_pc' = "done" /\ UNCHANGED ld_err
         [] file_path.kind = "other" ->
                ld_err' = "TypeError" /\ ld_pc' = "raised" /\ UNCHANGED ld_ret
         [] OTHER ->
                ld_pc' = "detect" /\ UNCHANGED <<ld_ret, ld_err>>
    /\ UNCHANGED <<LoadInputs, worker, co_pc, co_thread, co_exc, co_df, reads,
                   in_flight>>
    /\ UNCHANGED notLoad

\* DetectLoop without the test of line 120: asyncio.run in the calling thread
DetectLoop_AlwaysSync ==
    /\ variant = "current"
    /\ ld_pc = "detect"
    /\ co_thread' = "caller"
    /\ ld_pc' = "running"
    /\ co_pc' = "start"
    /\ UNCHANGED <<LoadInputs, worker, co_exc, co_df, reads, in_flight, ld_err,
                   ld_ret>>
    /\ UNCHANGED notLoad

\* lines 115-125: with a running loop the coroutine is handed to a one-thread
\* executor and the caller blocks in .result(); otherwise asyncio.run runs it
\* in the calling thread
DetectLoop ==
    /\ variant = "current"
    /\ ld_pc = "detect"
    /\ IF loop_running
       THEN worker' = "running" /\ co_thread' = "worker" /\ ld_pc' = "blocked"
       ELSE co_thread' = "caller" /\ ld_pc' = "running" /\ UNCHANGED worker
    /\ co_pc' = "start"
    /\ UNCHANGED <<LoadInputs, co_exc, co_df, reads, in_flight, ld_err, ld_ret>>
    /\ UNCHANGED notLoad

\* load_df_async lines 70-77: dispatch on the extension; .csv starts read_txt,
\* .parquet starts pd.read_parquet, anything else raises without reading
CoDispatch ==
    /\ variant = "current"
    /\ co_pc = "start"
    /\ IF file_path.ext \in {"csv", "parquet"}
       THEN /\ reads' = Append(reads,
                  [thread |-> co_thread,
                   api |-> IF file_path.ext = "csv" THEN "read_txt"
                           ELSE "pd.read_parquet"])
            /\ in_flight' = in_flight + 1
            /\ co_pc' = "reading"
            /\ UNCHANGED co_exc
       ELSE /\ co_exc' = LoadDfAsyncExcept("ValueError")
            /\ co_pc' = "failed"
            /\ UNCHANGED <<reads, in_flight>>
    /\ UNCHANGED <<LoadInputs, ld_pc, worker, co_thread, co_df, ld_err, ld_ret>>
    /\ UNCHANGED notLoad

\* the exception the read (and the parse that follows it) ends with
ReadOutcome ==
    IF ~fs.exists THEN "FileNotFoundError"
    ELSE IF fs.content # file_path.ext THEN "ParseError"
    ELSE "none"

\* read_txt lines 29-37 with process_csv, or process_parquet lines 61-68: the
\* read ends; every exception leaves load_df_async as a ValueError (line 83)
CoReadDone ==
    /\ variant = "current"
    /\ co_pc = "reading"
    /\ in_flight' = in_flight - 1
    /\ IF ReadOutcome = "none"
       THEN co_df' = fs.table /\ co_pc' = "ok" /\ UNCHANGED co_exc
       ELSE co_exc' = LoadDfAsyncExcept(ReadOutcome) /\ co_pc' = "failed"
            /\ UNCHANGED co_df
    /\ UNCHANGED <<LoadInputs, ld_pc, worker, co_thread, reads, ld_err, ld_ret>>
    /\ UNCHANGED notLoad

\* the executor's thread is done once asyncio.run has returned or raised
WorkerFinish ==
    /\ worker = "running"
    /\ co_pc \in {"ok", "failed"}
    /\ worker' = "finished"
    /\ UNCHANGED <<LoadInputs, ld_pc, co_pc, co_thread, co_exc, co_df, reads,
                   in_flight, ld_err, ld_ret>>
    /\ UNCHANGED notLoad

\* lines 123/125 return or raise, then lines 127-150: the unnamed columns are
\* dropped, the literal columns converted; every exception raised inside the
\* try block reaches the caller as a ValueError
PostProcess ==
    /\ variant = "current"
    /\ ld_pc \in {"blocked", "running"}
    /\ co_pc \in {"ok", "failed"}
    /\ co_thread = "worker" => worker = "finished"
    /\ LET conv == ConvertColumns(loc_not_unnamed(co_df), literal_ast_columns)
       IN  IF co_pc = "failed"
           THEN ld_err' = LoadAnyDfExcept(co_exc) /\ ld_pc' = "raised"
                /\ UNCHANGED ld_ret
           ELSE IF conv.err # "none"
           THEN ld_err' = LoadAnyDfExcept(conv.err) /\ ld_pc' = "raised"
                /\ UNCHANGED ld_ret
           ELSE ld_ret' = conv.df /\ ld_pc' = "done" /\ UNCHANGED ld_err
    /\ UNCHANGED <<LoadInputs, worker, co_pc, co_thread, co_exc, co_df, reads,
                   in_flight>>
    /\ UNCHANGED notLoad

(***************************************************************************)
(* load_any_df of mb_pandas/src/dfload.py                                  *)
(***************************************************************************)
\* line 51: asyncio.run(load_df_new(...)) raises RuntimeError at once when a
\* loop is running; otherwise the coroutine runs in the calling thread
LegacyEnter ==
    /\ variant = "legacy"
    /\ ld_pc = "call"
    /\ IF loop_running
       THEN co_pc' = "failed" /\ co_exc' = "RuntimeError" /\ ld_pc' = "except"
            /\ UNCHANGED co_thread
       ELSE co_pc' = "start" /\ co_thread' = "caller" /\ ld_pc' = "running"
            /\ UNCHANGED co_exc
    /\ UNCHANGED <<LoadInputs, worker, co_df, reads, in_flight, ld_err, ld_ret>>
    /\ UNCHANGED notLoad

\* lines 12-14 and 37: read_txt opens the path, whatever its extension;
\* open() of something that is no path raises TypeError
LegacyCoRead ==
    /\ variant = "legacy"
    /\ co_pc = "start"
    /\ IF file_path.kind = "path"
       THEN /\ reads' = Append(reads, [thread |-> co_thread, api |-> "read_txt"])
            /\ in_flight' = in_flight + 1
            /\ co_pc' = "reading"
            /\ UNCHANGED co_exc
       ELSE /\ co_exc' = "TypeError"
            /\ co_pc' = "failed"
            /\ UNCHANGED <<reads, in_flight>>
    /\ UNCHANGED <<LoadInputs, ld_pc, worker, co_thread, co_df, ld_err, ld_ret>>
    /\ UNCHANGED notLoad

\* the exception a CSV read of the path ends with
CsvOutcome ==
    IF ~fs.exists THEN "FileNotFoundError"
    ELSE IF fs.content # "csv" THEN "ParseError"
    ELSE "none"

\* lines 13-14 and 25-38: the text read ends and the text is parsed as CSV
LegacyCoReadDone ==
    /\ variant = "legacy"
    /\ co_pc = "reading"
    /\ in_flight' = in_flight - 1
    /\ IF CsvOutcome = "none"
       THEN co_df' = fs.table /\ co_pc' = "ok" /\ UNCHANGED co_exc
       ELSE co_exc' = CsvOutcome /\ co_pc' = "failed" /\ UNCHANGED co_df
    /\ UNCHANGED <<LoadInputs, ld_pc, worker, co_thread, reads, ld_err, ld_ret>>
    /\ UNCHANGED notLoad

\* LegacyAfterAsync without the except clause: the failure is raised
LegacyAfterAsync_NoFallback ==
    /\ variant = "legacy"
    /\ ld_pc = "running"
    /\ co_pc \in {"ok", "failed"}
    /\ IF co_pc = "ok"
       THEN ld_ret' = co_df /\ ld_pc' = "done" /\ UNCHANGED ld_err
       ELSE ld_err' = co_exc /\ ld_pc' = "raised" /\ UNCHANGED ld_ret
    /\ UNCHANGED <<LoadInputs, worker, co_pc, co_thread, co_exc, co_df, reads,
                   in_flight>>
    /\ UNCHANGED notLoad

\* lines 50-54: the table is returned, or the bare except takes over
LegacyAfterAsync ==
    /\ variant = "legacy"
    /\ ld_pc = "running"
    /\ co_pc \in {"ok", "failed"}
    /\ IF co_pc = "ok"
       THEN ld_ret' = co_df /\ ld_pc' = "done"
       ELSE ld_pc' = "except" /\ UNCHANGED ld_ret
    /\ UNCHANGED <<LoadInputs, worker, co_pc, co_thread, co_exc, co_df, reads,
                   in_flight, ld_err>>
    /\ UNCHANGED notLoad

\* line 55: pd.read_csv(file_path, index_col=0) starts; something that is no
\* path raises ValueError
LegacyFallback ==
    /\ variant = "legacy"
    /\ ld_pc = "except"
    /\ IF file_path.kind = "path"
       THEN /\ reads' = Append(reads, [thread |-> "caller", api |-> "pd.read_csv"])
            /\ in_flight' = in_flight + 1
            /\ ld_pc' = "fallback"
            /\ UNCHANGED ld_err
       ELSE /\ ld_err' = "ValueError"
            /\ ld_pc' = "raised"
            /\ UNCHANGED <<reads, in_flight>>
    /\ UNCHANGED <<LoadInputs, worker, co_pc, co_thread, co_exc, co_df, ld_ret>>
    /\ UNCHANGED notLoad

\* index_col=0: the first column becomes the index
IndexCol0(df) == SelectColumns(df, Tail(df.columns))

\* lines 55-58: the plain read ends; its exception reaches the caller
LegacyFallbackDone ==
    /\ variant = "legacy"
    /\ ld_pc = "fallback"
    /\ in_flight' = in_flight - 1
    /\ IF CsvOutcome = "none"
       THEN ld_ret' = IndexCol0(fs.table) /\ ld_pc' = "done" /\ UNCHANGED ld_err
       ELSE ld_err' = CsvOutcome /\ ld_pc' = "raised" /\ UNCHANGED ld_ret
    /\ UNCHANGED <<LoadInputs, worker, co_pc, co_thread, co_exc, co_df, reads>>
    /\ UNCHANGED notLoad

\* the caller passes the table it got back to load_any_df again
Reload ==
    /\ ld_pc = "done"
    /\ ld_calls < MaxCalls
    /\ file_path' = TableArg(ld_ret)
    /\ ld_prev' = ld_ret
    /\ ld_calls' = ld_calls + 1
    /\ ld_pc' = "call"
    /\ worker' = "none"
    /\ co_pc' = "none"
    /\ co_thread' = "none"
    /\ co_exc' = "none"
    /\ co_df' = EmptyTable
    /\ reads' = <<>>
    /\ ld_ret' = EmptyTable
    /\ UNCHANGED <<variant, fs, literal_ast_columns, loop_running, in_flight, ld_err>>
    /\ UNCHANGED notLoad


(***************************************************************************)
(* check_drop_duplicates                                                   *)
(***************************************************************************)
MaxDupRows == 3   \* rows of the table checked for duplicates

DupVals == {0, 1}

AgreeOn(r1, r2, subset) == \A c \in subset : r1[c] = r2[c]

\* df.duplicated(subset=subset, keep=False): every occurrence is marked
duplicated_all(df, subset) ==
    [i \in DOMAIN df.rows |->
        \E j \in DOMAIN df.rows : j # i /\ AgreeOn(df.rows[i], df.rows[j], subset)]

\* df.duplicated(subset=subset), keep='first': the later occurrences are marked
duplicated_first(df, subset) ==
    [i \in DOMAIN df.rows |->
        \E j \in DOMAIN df.rows : j < i /\ AgreeOn(df.rows[i], df.rows[j], subset)]

\* df[mask]: the rows whose mask is true, in order
RECURSIVE MaskRows(_, _)
MaskRows(rows, mask) ==
    IF rows = <<>> THEN <<>>
    ELSE (IF Head(mask) THEN <<Head(rows)>> ELSE <<>>)
         \o MaskRows(Tail(rows), Tail(mask))

BoolIndex(df, mask) == [columns |-> df.columns, rows |-> MaskRows(df.rows, mask)]

\* df.drop_duplicates(subset=subset)
drop_duplicates(df, subset) ==
    BoolIndex(df, [i \in DOMAIN df.rows |-> ~duplicated_first(df, subset)[i]])

\* lines 223-224: a single name becomes a one-element list
ColumnList(arg) == IF arg.kind = "str" THEN <<arg.name>> ELSE arg.names

\* lines 227-228
missing_cols(df, arg) == Range(ColumnList(arg)) \ Range(df.columns)

DupTables ==
    {[columns |-> <<"a", "b">>, rows |-> rs] :
        rs \in SeqsUpTo([{"a", "b"} -> DupVals], MaxDupRows)}

ColumnArgs ==
    {[kind |-> "str", name |-> c, names |-> <<>>] : c \in {"a", "q"}} \cup
    {[kind |-> "list", name |-> "", names |-> ns] :
        ns \in {<<"a">>, <<"b">>, <<"a", "b">>, <<"a", "q">>, <<"q">>}}

DupInit ==
    /\ cdd_variant \in {"current", "legacy"}
    /\ cdd_df \in DupTables
    /\ columns \in ColumnArgs
    /\ drop \in BOOLEAN
    /\ cdd_pc = "call"
    /\ duplicates = EmptyTable
    /\ cdd_scans = 0
    /\ cdd_err = "none"
    /\ cdd_ret = EmptyTable

DupInputs == <<cdd_variant, cdd_df, columns, drop>>

\* CddValidate looking at the first requested column only
CddValidate_FirstOnly ==
    /\ cdd_variant = "current"
    /\ cdd_pc = "call"
    /\ IF ColumnList(columns)[1] \notin Range(cdd_df.columns)
       THEN cdd_err' = "KeyError" /\ cdd_pc' = "raised"
       ELSE cdd_pc' = "detect" /\ UNCHANGED cdd_err
    /\ UNCHANGED <<DupInputs, duplicates, cdd_scans, cdd_ret>>
    /\ UNCHANGED notDup

\* mb/pandas/transform.py lines 220-229: the requested columns must exist
CddValidate ==
    /\ cdd_variant = "current"
    /\ cdd_pc = "call"
    /\ IF missing_cols(cdd_df, columns) # {}
       THEN cdd_err' = "KeyError" /\ cdd_pc' = "raised"
       ELSE cdd_pc' = "detect" /\ UNCHANGED cdd_err
    /\ UNCHANGED <<DupInputs, duplicates, cdd_scans, cdd_ret>>
    /\ UNCHANGED notDup

\* lines 233-234; df.duplicated itself raises KeyError for a subset that
\* names a column the table does not have
CddDetect ==
    /\ cdd_variant = "current"
    /\ cdd_pc = "detect"
    /\ cdd_scans' = cdd_scans + 1
    /\ IF missing_cols(cdd_df, columns) # {}
       THEN /\ cdd_err' = "KeyError"
            /\ cdd_pc' = "raised"
            /\ UNCHANGED duplicates
       ELSE /\ duplicates' = BoolIndex(cdd_df,
                    duplicated_all(cdd_df, Range(ColumnList(columns))))
            /\ cdd_pc' = "decide"
            /\ UNCHANGED cdd_err
    /\ UNCHANGED <<DupInputs, cdd_ret>>
    /\ UNCHANGED notDup

\* lines 236-248
CddFinish ==
    /\ cdd_variant = "current"
    /\ cdd_pc = "decide"
    /\ IF NRows(duplicates) > 0 /\ drop
       THEN /\ cdd_ret' = drop_duplicates(cdd_df, Range(ColumnList(columns)))
            /\ cdd_scans' = cdd_scans + 1
       ELSE /\ cdd_ret' = cdd_df
            /\ UNCHANGED cdd_scans
    /\ cdd_pc' = "done"
    /\ UNCHANGED <<DupInputs, duplicates, cdd_err>>
    /\ UNCHANGED notDup

\* mb_pandas/src/transform.py line 90: df.duplicates(...) is no attribute of
\* a DataFrame (the method is duplicated), so the call raises
LegacyCdd ==
    /\ cdd_variant = "legacy"
    /\ cdd_pc = "call"
    /\ cdd_err' = "AttributeError"
    /\ cdd_pc' = "raised"
    /\ UNCHANGED <<DupInputs, duplicates, cdd_scans, cdd_ret>>
    /\ UNCHANGED notDup

(***************************************************************************)
(* remove_unnamed                                                          *)
(***************************************************************************)
MaxCols == 3      \* columns of the table handed to remove_unnamed
MaxApply == 2     \* applications of remove_unnamed in a row

\* df.drop(columns=labels)
drop_columns(df, labels) ==
    SelectColumns(df, SelectSeq(df.columns, LAMBDA c : c \notin Range(labels)))

\* mb/pandas/transform.py lines 162-169
remove_unnamed(df) ==
    LET unnamed_cols == SelectSeq(df.columns, Unnamed)
    IN  IF unnamed_cols # <<>> THEN drop_columns(df, unnamed_cols) ELSE df

\* mb_pandas/src/transform.py line 54
legacy_remove_unnamed(df) == loc_not_unnamed(df)

RuNames == {ColA, ColC, ColU0, ColU1, ColMid}

\* the sequences of distinct names of at most n columns
ColumnSeqs(n) ==
    {cs \in SeqsUpTo(RuNames, n) : \A i, j \in DOMAIN cs : i # j => cs[i] # cs[j]}

\* one row; each cell holds the position of its column in the table
RuTable(cols) ==
    [columns |-> cols,
     rows |-> <<[c \in Range(cols) |->
                  CHOOSE i \in DOMAIN cols : cols[i] = c]>>]

RuInit ==
    /\ ru_variant \in {"current", "legacy"}
    /\ ru_in \in {RuTable(cs) : cs \in ColumnSeqs(MaxCols)}
    /\ ru_df = ru_in
    /\ ru_first = EmptyTable
    /\ ru_n = 0

RemoveUnnamed ==
    /\ ru_variant = "current"
    /\ ru_n < MaxApply
    /\ ru_df' = remove_unnamed(ru_df)
    /\ ru_first' = IF ru_n = 0 THEN remove_unnamed(ru_df) ELSE ru_first
    /\ ru_n' = ru_n + 1
    /\ UNCHANGED <<ru_variant, ru_in>>
    /\ UNCHANGED notRu

LegacyRemoveUnnamed ==
    /\ ru_variant = "legacy"
    /\ ru_n < MaxApply
    /\ ru_df' = legacy_remove_unnamed(ru_df)
    /\ ru_first' = IF ru_n = 0 THEN legacy_remove_unnamed(ru_df) ELSE ru_first
    /\ ru_n' = ru_n + 1
    /\ UNCHANGED <<ru_variant, ru_in>>
    /\ UNCHANGED notRu

(***************************************************************************)
(* rename_columns(df, new_column, old_column)                              *)
(* The rows of the table are tuples of cells in column order, so that a    *)
(* rename onto a name the table already has keeps every cell.              *)
(***************************************************************************)
RnNames == {"a", "b", "c"}

RnArgs == {"a", "b", "n"}

\* the sequences of distinct names of at most n columns
RnColumnSeqs(n) ==
    {cs \in SeqsUpTo(RnNames, n) : \A i, j \in DOMAIN cs : i # j => cs[i] # cs[j]}

\* one row; each cell holds the position of its column
RnTable(cols) ==
    [columns |-> cols, rows |-> <<[i \in DOMAIN cols |-> i]>>]

\* df.rename(columns={old: new})
df_rename(df, old, new) ==
    [df EXCEPT !.columns =
        [i \in DOMAIN df.columns |->
            IF df.columns[i] = old THEN new ELSE df.columns[i]]]

RnInit ==
    /\ rn_variant \in {"current", "legacy"}
    /\ rn_df \in {RnTable(cs) : cs \in RnColumnSeqs(MaxCols)}
    /\ rn_arg2 \in RnArgs
    /\ rn_arg3 \in RnArgs
    /\ rn_pc = "call"
    /\ rn_err = "none"
    /\ rn_ret = EmptyTable

\* RenameColumns with the parameters in the order (df, old_column, new_column)
RenameColumns_OldFirst ==
    /\ rn_variant = "current"
    /\ rn_pc = "call"
    /\ IF rn_arg2 \notin Range(rn_df.columns)
       THEN rn_err' = "KeyError" /\ rn_pc' = "raised" /\ UNCHANGED rn_ret
       ELSE rn_ret' = df_rename(rn_df, rn_arg2, rn_arg3) /\ rn_pc' = "done"
            /\ UNCHANGED rn_err
    /\ UNCHANGED <<rn_variant, rn_df, rn_arg2, rn_arg3>>
    /\ UNCHANGED notRn

\* mb/pandas/transform.py lines 171-202: new_column is the second parameter,
\* old_column the third
RenameColumns ==
    /\ rn_variant = "current"
    /\ rn_pc = "call"
    /\ LET new_column == rn_arg2
           old_column == rn_arg3
       IN  IF old_column \notin Range(rn_df.columns)
           THEN rn_err' = "KeyError" /\ rn_pc' = "raised" /\ UNCHANGED rn_ret
           ELSE rn_ret' = df_rename(rn_df, old_column, new_column)
                /\ rn_pc' = "done" /\ UNCHANGED rn_err
    /\ UNCHANGED <<rn_variant, rn_df, rn_arg2, rn_arg3>>
    /\ UNCHANGED notRn

\* mb_pandas/src/transform.py lines 59-76: an absent old_column is logged and
\* the table returned as it is
LegacyRenameColumns ==
    /\ rn_variant = "legacy"
    /\ rn_pc = "call"
    /\ LET new_column == rn_arg2
           old_column == rn_arg3
       IN  IF old_column \notin Range(rn_df.columns)
           THEN rn_ret' = rn_df
           ELSE rn_ret' = df_rename(rn_df, old_column, new_column)
    /\ rn_pc' = "done"
    /\ UNCHANGED <<rn_variant, rn_df, rn_arg2, rn_arg3, rn_err>>
    /\ UNCHANGED notRn

RnIdle ==
    /\ rn_variant = "current"
    /\ rn_df = EmptyTable
    /\ rn_arg2 = ""
    /\ rn_arg3 = ""
    /\ rn_pc = "idle"
    /\ rn_err = "none"
    /\ rn_ret = EmptyTable


(***************************************************************************)
(* check_null (and its copy check_file)                                    *)
(***************************************************************************)
MaxNullRows == 2  \* rows of the table handed to check_null

NullCell == Cell("null", "")

\* a cell of a column of the given dtype that is not null
ValueCell(dtype) ==
    CASE dtype \in {"int64", "Int64"} -> Cell("int", "7")
      [] dtype = "float64" -> Cell("float", "1.5")
      [] OTHER -> Cell("str", "x")

Dtypes == {"int64", "Int64", "float64", "object"}

\* pd.api.types.is_numeric_dtype, pd.api.types.is_integer_dtype
is_numeric_dtype(dtype) == dtype \in {"int64", "Int64", "float64"}
is_integer_dtype(dtype) == dtype \in {"int64", "Int64"}

\* a numpy int64 column cannot hold a null
MayHoldNull(dtype) == dtype # "int64"

CnColumns == <<"p", "q">>

\* the tables of k columns: a dtype per column, and per cell null or a value
CnTablesOf(k) ==
    LET cols == SubSeq(CnColumns, 1, k) IN
    {[columns |-> cols,
      dtypes |-> dt,
      rows |-> [i \in DOMAIN nulls |->
                   [c \in Range(cols) |->
                       IF nulls[i][c] THEN NullCell ELSE ValueCell(dt[c])]]] :
        dt \in [Range(cols) -> Dtypes],
        nulls \in SeqsUpTo([Range(cols) -> BOOLEAN], MaxNullRows)}

CnTables ==
    {t \in CnTablesOf(0) \cup CnTablesOf(1) \cup CnTablesOf(2) :
        \A c \in Range(t.columns) : \A i \in DOMAIN t.rows :
            t.rows[i][c] = NullCell => MayHoldNull(t.dtypes[c])}

\* df[column].isnull().sum()
null_count(df, column) ==
    Cardinality({i \in DOMAIN df.rows : df.rows[i][column] = NullCell})

\* line 137
fill_value(dtype) ==
    IF is_integer_dtype(dtype) THEN Cell("int", "0") ELSE Cell("float", "0.0")

\* the column with its nulls replaced
fillna_column(df, column, value) ==
    [df EXCEPT !.rows = [i \in DOMAIN df.rows |->
        [df.rows[i] EXCEPT ![column] = IF @ = NullCell THEN value ELSE @]]]

\* line 139, df[column].fillna(fill_value, inplace=True): the fill is made on
\* the Series df[column]; it shows in df unless pandas runs with copy-on-write,
\* where df[column] behaves as a copy
fillna_inplace(df, column, value, cow) ==
    IF cow THEN df ELSE fillna_column(df, column, value)

\* what a call returns: a table, or None when it falls off its end
ReturnTable(t) == [kind |-> "table", table |-> t]
ReturnNone == [kind |-> "None", table |-> EmptyTable]

CnInit ==
    /\ cn_variant \in {"current", "legacy", "check_file"}
    /\ cn_in \in CnTables
    /\ fillna \in BOOLEAN
    /\ copy_on_write \in BOOLEAN
    /\ cn_pc = "call"
    /\ cn_df = EmptyTable
    /\ cn_i = 0
    /\ cn_err = "none"
    /\ cn_ret = ReturnNone

CnInputs == <<cn_variant, cn_in, fillna, copy_on_write>>

\* line 122 (lines 22 and 20 of the legacy files): df = load_any_df(file_path)
CheckNullLoad ==
    /\ cn_pc = "call"
    /\ cn_df' = cn_in
    /\ cn_pc' = "loop"
    /\ UNCHANGED <<CnInputs, cn_i, cn_err, cn_ret>>
    /\ UNCHANGED notCn

\* mb/pandas/transform.py lines 128-141: one pass of the loop
CheckNullColumn ==
    /\ cn_variant = "current"
    /\ cn_pc = "loop"
    /\ cn_i < Len(cn_df.columns)
    /\ LET column == cn_df.columns[cn_i + 1]
           dtype == cn_df.dtypes[column]
       IN  cn_df' = IF null_count(cn_df, column) > 0 /\ fillna
                       /\ is_numeric_dtype(dtype)
                    THEN fillna_inplace(cn_df, column, fill_value(dtype),
                                        copy_on_write)
                    ELSE cn_df
    /\ cn_i' = cn_i + 1
    /\ UNCHANGED <<CnInputs, cn_pc, cn_err, cn_ret>>
    /\ UNCHANGED notCn

\* line 143
CheckNullReturn ==
    /\ cn_variant = "current"
    /\ cn_pc = "loop"
    /\ cn_i = Len(cn_df.columns)
    /\ cn_ret' = ReturnTable(cn_df)
    /\ cn_pc' = "done"
    /\ UNCHANGED <<CnInputs, cn_df, cn_i, cn_err>>
    /\ UNCHANGED notCn

\* mb_pandas/src/transform.py lines 28-42 and checker.py lines 26-38: the loop
\* calls df_c.isnull() on the column name, a str, which raises AttributeError
\* in its first pass; check_file has no return statement
LegacyCheckNull ==
    /\ cn_variant \in {"legacy", "check_file"}
    /\ cn_pc = "loop"
    /\ IF cn_df.columns # <<>>
       THEN cn_err' = "AttributeError" /\ cn_pc' = "raised" /\ UNCHANGED cn_ret
       ELSE /\ cn_ret' = IF cn_variant = "legacy" THEN ReturnTable(cn_df)
                         ELSE ReturnNone
            /\ cn_pc' = "done"
            /\ UNCHANGED cn_err
    /\ UNCHANGED <<CnInputs, cn_df, cn_i>>
    /\ UNCHANGED notCn

CnIdle ==
    /\ cn_variant = "current"
    /\ cn_in = EmptyTable
    /\ fillna = FALSE
    /\ copy_on_write = FALSE
    /\ cn_pc = "idle"
    /\ cn_df = EmptyTable
    /\ cn_i = 0
    /\ cn_err = "none"
    /\ cn_ret = ReturnNone


(***************************************************************************)
(* get_dftype                                                              *)
(***************************************************************************)
MaxSeries == 3  \* values of the series handed to get_dftype

\* the Python types of the values: "numstr" is a str that reads as a number,
\* "json" a list or dict, "None" a null
ValueTypes ==
    {"str", "numstr", "json", "ndarray", "int", "float", "Timestamp",
     "Timedelta", "None"}

\* the values a Series of each dtype holds
ValuesOfDtype(dtype) ==
    CASE dtype = "int64" -> {"int"}
      [] dtype = "float64" -> {"float", "None"}
      [] OTHER -> ValueTypes

GdSeries ==
    {[series |-> TRUE, dtype |-> dt, values |-> v] :
        dt \in {"int64", "float64"}, v \in SeqsUpTo({"int", "float", "None"},
                                                    MaxSeries)}
    \cup {[series |-> TRUE, dtype |-> "object", values |-> v] :
            v \in SeqsUpTo(ValueTypes, MaxSeries)}
    \cup {[series |-> FALSE, dtype |-> "object", values |-> v] :
            v \in {<<>>, <<"int">>}}

GdInputs ==
    {x \in GdSeries : Range(x.values) \subseteq ValuesOfDtype(x.dtype)}

Returns(v) == [err |-> "none", ret |-> v]
Raises(e) == [err |-> e, ret |-> ""]

\* the branch of the isinstance chain a value takes.  The chain tests str,
\* (list, dict), np.ndarray and then np.SparseNdarray; numpy has no attribute
\* SparseNdarray, so a value that none of the first three tests takes makes
\* the fourth test raise AttributeError, and the tests after it (cv2.Image,
\* pd.Timestamp, pd.Timedelta) are never reached.
isinstance_chain(x) ==
    CASE x \in {"str", "numstr"} -> "str"
      [] x = "json" -> "json"
      [] x = "ndarray" -> "ndarray"
      [] OTHER -> "AttributeError"

\* s.apply(lambda x: isinstance(x, T)).all()
all_isinstance(values, T) ==
    \A i \in DOMAIN values : isinstance_chain(values[i]) = T

\* s.first_valid_index(): the first value that is not null, 0 when none
first_valid_index(values) ==
    IF \E i \in DOMAIN values : values[i] # "None"
    THEN CHOOSE i \in DOMAIN values :
            /\ values[i] # "None"
            /\ \A j \in 1..(i - 1) : values[j] = "None"
    ELSE 0

\* pd.to_numeric(s, errors='raise') does not raise
to_numeric_ok(values) ==
    \A i \in DOMAIN values : values[i] \in {"int", "float", "numstr", "None"}

\* mb/pandas/transform.py lines 273-310
get_dftype(s) ==
    IF ~s.series THEN Raises("TypeError")
    ELSE IF Len(s.values) = 0 THEN Returns("object")
    ELSE IF is_numeric_dtype(s.dtype) THEN Returns(s.dtype)
    ELSE LET first_valid == first_valid_index(s.values) IN
         IF first_valid = 0
         THEN (IF to_numeric_ok(s.values) THEN Returns("float64")
               ELSE Returns("object"))
         ELSE LET T == isinstance_chain(s.values[first_valid]) IN
              IF T = "AttributeError" THEN Raises("AttributeError")
              ELSE Returns(IF all_isinstance(s.values, T) THEN T
                           ELSE "object")

\* mb_pandas/src/transform.py lines 124-169: the loop over s.tolist() from
\* value i on, dftype being the type seen so far ("None" when none).  It
\* yields the dftype the loop ends with, or the exception it raises.
RECURSIVE legacy_scan(_, _, _)
legacy_scan(values, i, dftype) ==
    IF i > Len(values) THEN Returns(dftype)
    ELSE LET T == isinstance_chain(values[i]) IN
         IF T = "AttributeError" THEN Raises("AttributeError")
         ELSE IF dftype = "None" THEN legacy_scan(values, i + 1, T)
         ELSE IF dftype # T THEN Returns(dftype)
         ELSE legacy_scan(values, i + 1, dftype)

\* mb_pandas/src/transform.py lines 121-188
legacy_get_dftype(s) ==
    IF Len(s.values) = 0 THEN Returns("object")
    ELSE IF ~s.series THEN Raises("AttributeError")
    ELSE LET scan == legacy_scan(s.values, 1, "None") IN
         IF scan.err # "none" THEN scan
         ELSE IF scan.ret = "None" THEN Returns("none")
         ELSE IF scan.ret # "object" THEN scan
         ELSE IF s.dtype # "object" THEN Returns(s.dtype)
         ELSE IF \A i \in DOMAIN s.values : s.values[i] \in {"int", "float"}
         THEN Returns("float64")
         ELSE Returns("object")

GdInit ==
    /\ gd_variant \in {"current", "legacy"}
    /\ gd_s \in GdInputs
    /\ gd_pc = "call"
    /\ gd_err = "none"
    /\ gd_ret = ""

GdFinish(out) ==
    /\ gd_err' = out.err
    /\ gd_ret' = out.ret
    /\ gd_pc' = IF out.err = "none" THEN "done" ELSE "raised"
    /\ UNCHANGED <<gd_variant, gd_s>>
    /\ UNCHANGED notGd

GetDftype ==
    /\ gd_variant = "current"
    /\ gd_pc = "call"
    /\ GdFinish(get_dftype(gd_s))

LegacyGetDftype ==
    /\ gd_variant = "legacy"
    /\ gd_pc = "call"
    /\ GdFinish(legacy_get_dftype(gd_s))

GdIdle ==
    /\ gd_variant = "current"
    /\ gd_s = [series |-> TRUE, dtype |-> "object", values |-> <<>>]
    /\ gd_pc = "idle"
    /\ gd_err = "none"
    /\ gd_ret = ""

(***************************************************************************)
(* srun                                                                    *)
(***************************************************************************)
MaxAwaits == 2  \* await points of the async function
MaxResult == 1  \* the async function returns a value in 0..MaxResult

SrOutcomes ==
    {[kind |-> "return", value |-> v] : v \in 0..MaxResult}
    \cup {[kind |-> "raise", value |-> 0]}

ReturnValue(v) == [kind |-> "value", value |-> v]
ReturnsNone == [kind |-> "None", value |-> 0]

SrInit ==
    /\ sr_awaits \in SeqsUpTo(BOOLEAN, MaxAwaits)
    /\ sr_outcome \in SrOutcomes
    /\ sr_accepts \in BOOLEAN
    /\ sr_pc = "call"
    /\ core = "none"
    /\ core_pos = 0
    /\ sr_err = "none"
    /\ sr_ret = ReturnsNone

SrInputs == <<sr_awaits, sr_outcome, sr_accepts>>

\* lines 18-20: core = async_func(*args, context_vars, **kwargs); the call
\* raises TypeError when async_func does not take the extra argument
SrunCall ==
    /\ sr_pc = "call"
    /\ IF sr_accepts
       THEN core' = "created" /\ sr_pc' = "send" /\ UNCHANGED sr_err
       ELSE sr_err' = "TypeError" /\ sr_pc' = "raised" /\ UNCHANGED core
    /\ UNCHANGED <<SrInputs, core_pos, sr_ret>>
    /\ UNCHANGED notSr

\* line 21: core.send(None) starts the coroutine
SrunSend ==
    /\ sr_pc = "send"
    /\ core = "created"
    /\ core' = "running"
    /\ sr_pc' = "in_send"
    /\ UNCHANGED <<SrInputs, core_pos, sr_err, sr_ret>>
    /\ UNCHANGED notSr

\* the coroutine passes an await whose operand completes without suspending
CoAwaitThrough ==
    /\ core = "running"
    /\ core_pos < Len(sr_awaits)
    /\ ~sr_awaits[core_pos + 1]
    /\ core_pos' = core_pos + 1
    /\ UNCHANGED <<SrInputs, sr_pc, core, sr_err, sr_ret>>
    /\ UNCHANGED notSr

\* the coroutine suspends at an await: send returns what was yielded, and
\* srun goes on to line 22
CoSuspend ==
    /\ core = "running"
    /\ core_pos < Len(sr_awaits)
    /\ sr_awaits[core_pos + 1]
    /\ core' = "suspended"
    /\ sr_pc' = "close"
    /\ UNCHANGED <<SrInputs, core_pos, sr_err, sr_ret>>
    /\ UNCHANGED notSr

\* the coroutine ends: its return raises StopIteration out of send, which
\* lines 23-24 turn into srun's return value; any other exception leaves srun
CoFinish ==
    /\ core = "running"
    /\ core_pos = Len(sr_awaits)
    /\ core' = "finished"
    /\ IF sr_outcome.kind = "return"
       THEN /\ sr_ret' = ReturnValue(sr_outcome.value)
            /\ sr_pc' = "done"
            /\ UNCHANGED sr_err
       ELSE /\ sr_err' = "Exception"
            /\ sr_pc' = "raised"
            /\ UNCHANGED sr_ret
    /\ UNCHANGED <<SrInputs, core_pos>>
    /\ UNCHANGED notSr

\* line 22: core.close() ends the suspended coroutine where it stands
SrunClose ==
    /\ sr_pc = "close"
    /\ core = "suspended"
    /\ core' = "closed"
    /\ sr_pc' = "end"
    /\ UNCHANGED <<SrInputs, core_pos, sr_err, sr_ret>>
    /\ UNCHANGED notSr

\* the try block ends without a return statement: srun returns None
SrunFallOff ==
    /\ sr_pc = "end"
    /\ sr_ret' = ReturnsNone
    /\ sr_pc' = "done"
    /\ UNCHANGED <<SrInputs, core, core_pos, sr_err>>
    /\ UNCHANGED notSr

SrIdle ==
    /\ sr_awaits = <<>>
    /\ sr_outcome = [kind |-> "return", value |-> 0]
    /\ sr_accepts = TRUE
    /\ sr_pc = "idle"
    /\ core = "none"
    /\ core_pos = 0
    /\ sr_err = "none"
    /\ sr_ret = ReturnsNone

(***************************************************************************)
(* read_csv_asyn                                                           *)
(***************************************************************************)
MaxReaders == 3  \* concurrent calls of read_csv_asyn on the path

Readers == 1..MaxReaders

\* the names csv.py binds at module level: lines 1-2 import pandas as pd and
\* tqdm, line 4 defines the function; nothing else is imported
ModuleNames == {"pd", "tqdm", "read_csv_asyn"}

\* whether evaluating the name raises NameError
Unbound(name) == name \notin ModuleNames

RcInit ==
    /\ rc_filepath \in [zip : BOOLEAN, exists : BOOLEAN, meta : BOOLEAN]
    /\ rc_pc = [t \in Readers |-> "none"]
    /\ rc_err = [t \in Readers |-> "none"]
    /\ rc_lock = {}
    /\ rc_acquired = {}

\* line 4: calling the async function makes the coroutine; its body waits
\* for the first send
ReadCsvCall(t) ==
    /\ rc_pc[t] = "none"
    /\ rc_pc' = [rc_pc EXCEPT ![t] = "created"]
    /\ UNCHANGED <<rc_filepath, rc_err, rc_lock, rc_acquired>>
    /\ UNCHANGED notRc

\* lines 6-106: the body defines postprocess and process and then evaluates
\* path.lock(filepath, to_write=False).  The annotation io.StringIO of line
\* 24 and the name path of line 106 are not bound in the module, so the body
\* raises NameError before it has asked for the lock or read anything.
ReadCsvEnter(t) ==
    /\ rc_pc[t] = "created"
    /\ IF Unbound("io") \/ Unbound("path")
       THEN /\ rc_err' = [rc_err EXCEPT ![t] = "NameError"]
            /\ rc_pc' = [rc_pc EXCEPT ![t] = "raised"]
            /\ UNCHANGED <<rc_lock, rc_acquired>>
       ELSE \* line 106 with the names bound: the read lock is taken
            /\ rc_lock' = rc_lock \cup {t}
            /\ rc_acquired' = rc_acquired \cup {t}
            /\ rc_pc' = [rc_pc EXCEPT ![t] = "locked"]
            /\ UNCHANGED rc_err
    /\ UNCHANGED rc_filepath
    /\ UNCHANGED notRc

RcIdle ==
    /\ rc_filepath = [zip |-> FALSE, exists |-> FALSE, meta |-> FALSE]
    /\ rc_pc = [t \in Readers |-> "none"]
    /\ rc_err = [t \in Readers |-> "none"]
    /\ rc_lock = {}
    /\ rc_acquired = {}

(***************************************************************************)
(* The specifications: one per group of operations; the other groups stay  *)
(* idle.                                                                   *)
(***************************************************************************)
MergeIdle ==
    /\ mc_pc = "idle"
    /\ a = EmptyTable
    /\ b = EmptyTable
    /\ chunksize = 1
    /\ how = "inner"
    /\ df1 = EmptyTable
    /\ df2 = EmptyTable
    /\ list_df = <<>>
    /\ result = EmptyTable
    /\ mc_i = 0
    /\ mc_err = "none"
    /\ mc_merges = 0

LoadIdle ==
    /\ variant = "current"
    /\ file_path = OtherArg
    /\ fs = NoFile
    /\ literal_ast_columns = <<>>
    /\ loop_running = FALSE
    /\ ld_pc = "idle"
    /\ worker = "none"
    /\ co_pc = "none"
    /\ co_thread = "none"
    /\ co_exc = "none"
    /\ co_df = EmptyTable
    /\ reads = <<>>
    /\ in_flight = 0
    /\ ld_err = "none"
    /\ ld_ret = EmptyTable
    /\ ld_calls = 0
    /\ ld_prev = EmptyTable

DupIdle ==
    /\ cdd_variant = "current"
    /\ cdd_df = EmptyTable
    /\ columns = [kind |-> "list", name |-> "", names |-> <<>>]
    /\ drop = FALSE
    /\ cdd_pc = "idle"
    /\ duplicates = EmptyTable
    /\ cdd_scans = 0
    /\ cdd_err = "none"
    /\ cdd_ret = EmptyTable

RuIdle ==
    /\ ru_variant = "current"
    /\ ru_in = EmptyTable
    /\ ru_df = EmptyTable
    /\ ru_first = EmptyTable
    /\ ru_n = MaxApply

InitMerge == MergeInit /\ LoadIdle /\ DupIdle /\ RuIdle /\ RnIdle /\ CnIdle /\ GdIdle /\ SrIdle /\ RcIdle
NextMerge ==
    SwapIfLarger \/ CheckAndChunk \/ MergeFirst \/ MergeNext \/ MergeReturn
SpecMerge == InitMerge /\ [][NextMerge]_vars

InitLoad == LoadInit /\ MergeIdle /\ DupIdle /\ RuIdle /\ RnIdle /\ CnIdle /\ GdIdle /\ SrIdle /\ RcIdle
NextLoad ==
    \/ LoadEnter \/ DetectLoop \/ CoDispatch \/ CoReadDone \/ WorkerFinish
    \/ PostProcess
    \/ LegacyEnter \/ LegacyCoRead \/ LegacyCoReadDone \/ LegacyAfterAsync
    \/ LegacyFallback \/ LegacyFallbackDone
    \/ Reload
SpecLoad == InitLoad /\ [][NextLoad]_vars

InitDup == DupInit /\ MergeIdle /\ LoadIdle /\ RuIdle /\ RnIdle /\ CnIdle /\ GdIdle /\ SrIdle /\ RcIdle
NextDup == CddValidate \/ CddDetect \/ CddFinish \/ LegacyCdd
SpecDup == InitDup /\ [][NextDup]_vars

InitUnnamed == RuInit /\ MergeIdle /\ LoadIdle /\ DupIdle /\ RnIdle /\ CnIdle /\ GdIdle /\ SrIdle /\ RcIdle
NextUnnamed == RemoveUnnamed \/ LegacyRemoveUnnamed
SpecUnnamed == InitUnnamed /\ [][NextUnnamed]_vars

InitRename == RnInit /\ MergeIdle /\ LoadIdle /\ DupIdle /\ RuIdle /\ CnIdle /\ GdIdle /\ SrIdle /\ RcIdle
NextRename == RenameColumns \/ LegacyRenameColumns
SpecRename == InitRename /\ [][NextRename]_vars

InitNull == CnInit /\ MergeIdle /\ LoadIdle /\ DupIdle /\ RuIdle /\ RnIdle /\ GdIdle /\ SrIdle /\ RcIdle
NextNull ==
    CheckNullLoad \/ CheckNullColumn \/ CheckNullReturn \/ LegacyCheckNull
SpecNull == InitNull /\ [][NextNull]_vars

InitDftype ==
    GdInit /\ MergeIdle /\ LoadIdle /\ DupIdle /\ RuIdle /\ RnIdle /\ CnIdle /\ SrIdle /\ RcIdle
NextDftype == GetDftype \/ LegacyGetDftype
SpecDftype == InitDftype /\ [][NextDftype]_vars

InitSrun ==
    SrInit /\ MergeIdle /\ LoadIdle /\ DupIdle /\ RuIdle /\ RnIdle /\ CnIdle
    /\ GdIdle /\ RcIdle
NextSrun ==
    \/ SrunCall \/ SrunSend \/ CoAwaitThrough \/ CoSuspend \/ CoFinish
    \/ SrunClose \/ SrunFallOff
SpecSrun == InitSrun /\ [][NextSrun]_vars

InitReadCsv ==
    RcInit /\ MergeIdle /\ LoadIdle /\ DupIdle /\ RuIdle /\ RnIdle /\ CnIdle
    /\ GdIdle /\ SrIdle
NextReadCsv == \E t \in Readers : ReadCsvCall(t) \/ ReadCsvEnter(t)
SpecReadCsv == InitReadCsv /\ [][NextReadCsv]_vars

(***************************************************************************)
(* Claims about merge_chunk (checked under SpecMerge)                      *)
(***************************************************************************)
CommonColumns == Range(a.columns) \cap Range(b.columns)

MergeFinished == mc_pc \in {"done", "raised"}

\* C1: for tables that share a column, any chunk size >= 1 and any merge
\* option, merge_chunk returns the same set of rows as one unchunked merge of
\* a and b with the same option (zero-row inputs, swapped inputs and
\* non-inner joins included).
C1_ChunkedEqualsUnchunked ==
    (MergeFinished /\ CommonColumns # {}) =>
        /\ mc_pc = "done"
        /\ RowSet(result) = RowSet(pd_merge(a, b, how))

\* C2: when the two tables share no column name, merge_chunk raises (a
\* ValueError) and performs no merge, whatever the chunk size and the row
\* counts: it never gets past the check, no pd.merge call is made and no
\* result is built.
C2_NoCommonColumnRaises ==
    CommonColumns = {} =>
        /\ mc_pc \in {"start", "check", "raised"}
        /\ mc_pc = "raised" => mc_err = "ValueError"
        /\ mc_merges = 0
        /\ list_df = <<>>
        /\ result = EmptyTable

\* C2 witness: the call has raised for tables without a common column, the
\* first of which has more rows (the swap was made) and the second none.
C2_Witness ==
    /\ CommonColumns = {}
    /\ mc_pc = "raised"
    /\ mc_err = "ValueError"
    /\ NRows(a) = MaxRows
    /\ NRows(b) = 0
    /\ df1 = b

\* the rows of the merges of the base against the first n chunks, in order
MergedChunks(n) ==
    Flatten([j \in 1..n |-> pd_merge(df1, list_df[j], how).rows])

\* C17: the table with fewer rows is the merge base, the inputs being swapped
\* only when the first has strictly more rows; the other table is cut into
\* contiguous, pairwise disjoint chunks of 1 to chunksize rows that cover
\* each of its rows once; the result is the concatenation, in chunk order, of
\* the merges of the base against the chunks, the first chunk seeding it.
C17_ChunkStructure ==
    /\ mc_pc # "start" =>
          /\ NRows(df1) <= NRows(df2)
          /\ <<df1, df2>> = IF NRows(a) > NRows(b) THEN <<b, a>> ELSE <<a, b>>
    /\ mc_pc \in {"first", "loop", "done"} =>
          /\ Flatten([j \in 1..Len(list_df) |-> list_df[j].rows]) = df2.rows
          /\ \A j \in 1..Len(list_df) :
                /\ NRows(list_df[j]) \in 1..chunksize
                /\ list_df[j].columns = df2.columns
                /\ \A k \in 1..Len(list_df) :
                      j # k => RowSet(list_df[j]) \cap RowSet(list_df[k]) = {}
    /\ mc_pc \in {"loop", "done"} =>
          /\ mc_i >= 1
          /\ result.rows = MergedChunks(mc_i)
          /\ mc_merges = mc_i
    /\ mc_pc = "done" => mc_i = Len(list_df)

\* C17 witness: the call has returned after swapping its inputs and merging
\* the base against more than one chunk, and the result has rows.
C17_Witness ==
    /\ mc_pc = "done"
    /\ NRows(a) > NRows(b)
    /\ df1 = b
    /\ Len(list_df) > 1
    /\ result.rows # <<>>

(***************************************************************************)
(* Claims about load_any_df (checked under SpecLoad)                       *)
(***************************************************************************)
PathCall == file_path.kind = "path"

ReadThread == IF loop_running THEN "worker" ELSE "caller"

\* C3 as stated: every call of load_any_df with a path starts exactly one
\* file read and has at most one in flight; with a running loop the read runs
\* on the worker thread, which has finished before the call ends, while the
\* caller blocks; without one it runs in the calling thread.
C3_ExactlyOneRead ==
    /\ in_flight <= 1
    /\ worker = "running" => ld_pc = "blocked"
    /\ (LoadFinished /\ PathCall) =>
        /\ in_flight = 0
        /\ Len(reads) = 1
        /\ reads[1].thread = ReadThread
        /\ worker = IF loop_running THEN "finished" ELSE "none"

\* C3 amended: at most one read is ever in flight and the caller is blocked
\* while the worker runs.  A call of the current loader with a path starts
\* exactly one read when the extension is .csv or .parquet and none for any
\* other extension; with a running loop the read is the worker's and the
\* worker has finished before the call ends, without one the read is the
\* caller's and there is no worker.  A call of the legacy loader with a path
\* never uses a worker: it starts one or two reads in the calling thread, one
\* after the other (the asynchronous read and, after it failed, the fallback).
C3_ReadsPerCall ==
    /\ in_flight <= 1
    /\ worker = "running" => ld_pc = "blocked"
    /\ (in_flight = 1 /\ variant = "current") =>
            ld_pc = (IF loop_running THEN "blocked" ELSE "running")
    /\ (LoadFinished /\ PathCall /\ variant = "current") =>
        /\ in_flight = 0
        /\ Len(reads) = IF file_path.ext \in {"csv", "parquet"} THEN 1 ELSE 0
        /\ \A i \in DOMAIN reads : reads[i].thread = ReadThread
        /\ worker = IF loop_running THEN "finished" ELSE "none"
    /\ (LoadFinished /\ PathCall /\ variant = "legacy") =>
        /\ in_flight = 0
        /\ Len(reads) \in {1, 2}
        /\ \A i \in DOMAIN reads : reads[i].thread = "caller"
        /\ worker = "none"

\* C3 witness: a call of the current loader made under a running loop has
\* returned a table after its one read ran on the worker thread.
C3_Witness ==
    /\ variant = "current"
    /\ PathCall
    /\ loop_running
    /\ ld_pc = "done"
    /\ Len(reads) = 1
    /\ reads[1].thread = "worker"
    /\ worker = "finished"

\* C4 as stated: load_any_df called with a table returns that same table
\* unchanged and starts no read, so passing a loaded table to load_any_df
\* again yields the same table.
C4_TableIdentity ==
    (LoadFinished /\ file_path.kind = "table") =>
        /\ ld_pc = "done"
        /\ ld_ret = file_path.table
        /\ reads = <<>>
        /\ ld_calls > 1 => ld_ret = ld_prev

\* C4 amended: the current loader called with a table returns that same
\* table unchanged and starts no read, so passing a loaded table to it again
\* yields the same table; the legacy loader takes paths only and raises a
\* ValueError, without reading, when it is handed a table.
C4_TableIdentityCurrent ==
    /\ (LoadFinished /\ file_path.kind = "table" /\ variant = "current") =>
        /\ ld_pc = "done"
        /\ ld_ret = file_path.table
        /\ reads = <<>>
        /\ co_pc = "none"
        /\ ld_calls > 1 => ld_ret = ld_prev
    /\ (LoadFinished /\ file_path.kind = "table" /\ variant = "legacy") =>
        /\ ld_pc = "raised"
        /\ ld_err = "ValueError"
        /\ reads = <<>>

\* C4 witness: a table with an auto-index column went through the current
\* loader twice and came back with that column.
C4_Witness ==
    /\ variant = "current"
    /\ file_path.kind = "table"
    /\ ld_pc = "done"
    /\ ld_calls = 2
    /\ ColU0 \in Range(ld_ret.columns)
    /\ ld_ret = ld_prev

\* C5: when load_any_df is asked to convert a column that is absent from the
\* loaded table, the error that reaches the caller is a key error.
C5_AbsentColumnKeyError ==
    (/\ variant = "current"
     /\ PathCall
     /\ LoadFinished
     /\ co_pc = "ok"
     /\ ConvertColumns(loc_not_unnamed(co_df), literal_ast_columns).err = "KeyError")
    => (ld_pc = "raised" /\ ld_err = "KeyError")

\* C6: when load_any_df is called with a path to a file that does not exist,
\* the error that reaches the caller is a not-found error.
C6_MissingFileNotFound ==
    (/\ variant = "current"
     /\ PathCall
     /\ file_path.ext \in {"csv", "parquet"}
     /\ ~fs.exists
     /\ LoadFinished)
    => (ld_pc = "raised" /\ ld_err = "FileNotFoundError")

AsyncFailed == co_pc = "failed"

FallbackAttempted ==
    Len(reads) >= 1 /\ reads[Len(reads)].api = "pd.read_csv"

\* C7 as stated: in the top-level loader, whenever the asynchronous read path
\* fails, a plain synchronous read of the same path is attempted before an
\* error reaches the caller.
C7_FallbackBeforeError ==
    (LoadFinished /\ PathCall /\ AsyncFailed) => FallbackAttempted

\* C7 amended: the fallback exists in the legacy loader only.  There, whenever
\* the asynchronous read path fails, pd.read_csv of the same path is attempted
\* in the calling thread, and an error reaches the caller only after that read
\* has failed too (the error is the fallback's).  The current loader has no
\* fallback: when its asynchronous read path fails, a ValueError reaches the
\* caller and no further read is made.
C7_FallbackLegacyOnly ==
    /\ (LoadFinished /\ PathCall /\ AsyncFailed /\ variant = "legacy") =>
        /\ FallbackAttempted
        /\ reads[Len(reads)].thread = "caller"
        /\ (ld_pc = "raised") <=> (CsvOutcome # "none")
        /\ ld_pc = "raised" => ld_err = CsvOutcome
    /\ (ld_pc = "raised" /\ PathCall /\ variant = "legacy") =>
        (AsyncFailed /\ FallbackAttempted)
    /\ (LoadFinished /\ PathCall /\ AsyncFailed /\ variant = "current") =>
        /\ ld_pc = "raised"
        /\ ld_err = "ValueError"
        /\ Len(reads) <= 1
        /\ ~FallbackAttempted

\* C7 witness: the legacy loader's asynchronous read failed and the call
\* still returned a table, read by the fallback.
C7_Witness ==
    /\ variant = "legacy"
    /\ PathCall
    /\ AsyncFailed
    /\ ld_pc = "done"
    /\ FallbackAttempted

(***************************************************************************)
(* Claims about check_drop_duplicates (checked under SpecDup)              *)
(***************************************************************************)
CddFinished == cdd_pc \in {"done", "raised"}

RequestedColumns == Range(ColumnList(columns))

NoDuplicatesOn(t, subset) ==
    \A i, j \in DOMAIN t.rows : AgreeOn(t.rows[i], t.rows[j], subset) => i = j

\* C8: for any table and any subset of its columns, check_drop_duplicates
\* with drop=True returns a table in which no two rows agree on all of the
\* columns and which has at most as many rows as the input.
C8_DropGivesNoDuplicates ==
    (CddFinished /\ drop /\ missing_cols(cdd_df, columns) = {}) =>
        /\ cdd_pc = "done"
        /\ NoDuplicatesOn(cdd_ret, RequestedColumns)
        /\ NRows(cdd_ret) <= NRows(cdd_df)

\* C9: check_drop_duplicates (mb/pandas/transform.py) fails with a key error
\* before any duplicate detection or removal whenever a requested column,
\* given as a single name or in a list, is not a column of the table, for
\* drop=True and drop=False alike.
C9_MissingColumnKeyError ==
    (cdd_variant = "current" /\ missing_cols(cdd_df, columns) # {}) =>
        /\ cdd_pc \in {"call", "raised"}
        /\ cdd_pc = "raised" => cdd_err = "KeyError"
        /\ cdd_scans = 0
        /\ duplicates = EmptyTable
        /\ cdd_ret = EmptyTable

\* C9 witness: a call with drop set, on a table that has duplicate rows, has
\* raised for a list naming one column the table has and one it has not.
C9_Witness ==
    /\ cdd_variant = "current"
    /\ cdd_pc = "raised"
    /\ cdd_err = "KeyError"
    /\ drop
    /\ columns.kind = "list"
    /\ ColumnList(columns) = <<"a", "q">>
    /\ ~NoDuplicatesOn(cdd_df, {"a"})

\* the rows of t that are the first with their values on subset
FirstOccurrences(t, subset) ==
    {i \in DOMAIN t.rows :
        \A j \in 1..(i - 1) : ~AgreeOn(t.rows[i], t.rows[j], subset)}

\* the k-th smallest member of a set of row numbers
Kth(S, k) == CHOOSE i \in S : Cardinality({j \in S : j <= i}) = k

\* C18: with drop=True check_drop_duplicates returns exactly the rows that
\* are the first occurrence of their values on the columns, in their original
\* order; with drop=False it returns the input table with every row kept.
C18_FirstOccurrencesKept ==
    (CddFinished /\ missing_cols(cdd_df, columns) = {}) =>
        /\ cdd_pc = "done"
        /\ cdd_ret.columns = cdd_df.columns
        /\ ~drop => cdd_ret = cdd_df
        /\ drop =>
            LET F == FirstOccurrences(cdd_df, RequestedColumns) IN
            /\ NRows(cdd_ret) = Cardinality(F)
            /\ \A k \in 1..NRows(cdd_ret) :
                  cdd_ret.rows[k] = cdd_df.rows[Kth(F, k)]

(***************************************************************************)
(* Claims about remove_unnamed (checked under SpecUnnamed)                 *)
(***************************************************************************)
StartsWithUnnamed(c) == c[1] = "Unnamed"

PosIn(cols, c) == CHOOSE i \in DOMAIN cols : cols[i] = c

\* C10: remove_unnamed is idempotent (a second and a third application
\* return what the first returned); its result has no column whose name
\* starts with "Unnamed" and keeps every other column, with its cells, in the
\* original order.
C10_RemoveUnnamedIdempotent ==
    ru_n >= 1 =>
        /\ ru_df = ru_first
        /\ \A c \in Range(ru_df.columns) : ~StartsWithUnnamed(c)
        /\ Range(ru_df.columns) =
                {c \in Range(ru_in.columns) : ~StartsWithUnnamed(c)}
        /\ \A i, j \in DOMAIN ru_df.columns :
                i < j => PosIn(ru_in.columns, ru_df.columns[i])
                            < PosIn(ru_in.columns, ru_df.columns[j])
        /\ Len(ru_df.rows) = Len(ru_in.rows)
        /\ \A r \in DOMAIN ru_df.rows :
                /\ DOMAIN ru_df.rows[r] = Range(ru_df.columns)
                /\ \A c \in Range(ru_df.columns) :
                        ru_df.rows[r][c] = ru_in.rows[r][c]

\* C10 witness: remove_unnamed was applied twice to a table that has an
\* auto-index column and a column with "Unnamed" later in its name; the
\* first is gone and the second kept.
C10_Witness ==
    /\ ru_n >= 2
    /\ ColU0 \in Range(ru_in.columns)
    /\ ColMid \in Range(ru_in.columns)
    /\ ColMid \in Range(ru_df.columns)
    /\ ColU0 \notin Range(ru_df.columns)

(***************************************************************************)
(* Claims about rename_columns (checked under SpecRename)                  *)
(***************************************************************************)
RnFinished == rn_pc \in {"done", "raised"}

\* the table with the column named old renamed to new, everything else kept
Renamed(df, old, new) ==
    /\ rn_ret.rows = df.rows
    /\ Len(rn_ret.columns) = Len(df.columns)
    /\ \A i \in DOMAIN df.columns :
            rn_ret.columns[i] = IF df.columns[i] = old THEN new
                                ELSE df.columns[i]

\* C11 as stated: called as (table, old_name, new_name), in that order, the
\* function returns the table with the column old_name renamed to new_name
\* and everything else unchanged when old_name is a column of the table, and
\* fails with a key error when it is not.
C11_RenameOldThenNew ==
    RnFinished =>
        IF rn_arg2 \in Range(rn_df.columns)
        THEN rn_pc = "done" /\ Renamed(rn_df, rn_arg2, rn_arg3)
        ELSE rn_pc = "raised" /\ rn_err = "KeyError"

\* C11 amended: the function is rename_columns(table, new_name, old_name):
\* the new name comes second and the old name third.  When old_name is a
\* column of the table the result has that column named new_name and every
\* other column name, the column order and all cells unchanged.  When it is
\* not, the current implementation fails with a key error and the legacy one
\* returns the table unchanged.
C11_RenameNewThenOld ==
    RnFinished =>
        IF rn_arg3 \in Range(rn_df.columns)
        THEN rn_pc = "done" /\ Renamed(rn_df, rn_arg3, rn_arg2)
        ELSE IF rn_variant = "current"
        THEN rn_pc = "raised" /\ rn_err = "KeyError" /\ rn_ret = EmptyTable
        ELSE rn_pc = "done" /\ rn_ret = rn_df

\* C11 witness: the current implementation renamed the column a of a table of
\* several columns to n, which the table did not have.
C11_Witness ==
    /\ rn_variant = "current"
    /\ rn_pc = "done"
    /\ rn_arg2 = "n"
    /\ rn_arg3 = "a"
    /\ Len(rn_df.columns) >= 2
    /\ "a" \in Range(rn_df.columns)
    /\ "n" \in Range(rn_ret.columns)
    /\ "a" \notin Range(rn_ret.columns)

(***************************************************************************)
(* Claims about check_null (checked under SpecNull)                        *)
(***************************************************************************)
CnFinished == cn_pc \in {"done", "raised"}

\* C12: with fill requested, check_null returns a table in which no numeric
\* column has a null (integer zero in integer columns, float zero in floating
\* columns), every cell that was not null keeps its value, and every
\* non-numeric column is as in the input, nulls included; with fill not
\* requested the returned table equals the input table.
C12_CheckNullFills ==
    CnFinished =>
        /\ cn_pc = "done"
        /\ cn_ret.kind = "table"
        /\ cn_ret.table.columns = cn_in.columns
        /\ Len(cn_ret.table.rows) = Len(cn_in.rows)
        /\ ~fillna => cn_ret.table = cn_in
        /\ fillna =>
            \A c \in Range(cn_in.columns) : \A i \in DOMAIN cn_in.rows :
                cn_ret.table.rows[i][c] =
                    IF cn_in.rows[i][c] = NullCell
                       /\ is_numeric_dtype(cn_in.dtypes[c])
                    THEN (IF is_integer_dtype(cn_in.dtypes[c])
                          THEN Cell("int", "0") ELSE Cell("float", "0.0"))
                    ELSE cn_in.rows[i][c]

(***************************************************************************)
(* Claims about get_dftype (checked under SpecDftype)                      *)
(***************************************************************************)
GdFinished == gd_pc \in {"done", "raised"}

\* the Python type of a value
PyType(x) == IF x = "numstr" THEN "str" ELSE x

\* the types of the values that are not null
TypesIn(values) ==
    {PyType(values[i]) : i \in {j \in DOMAIN values : values[j] # "None"}}

MixedTypes(values) == Cardinality(TypesIn(values)) > 1

\* C13: get_dftype returns the numeric dtype name for an integer column,
\* 'object' for every column of mixed types, and 'object' for every empty
\* column, whatever its dtype.
C13_DftypeOfColumn ==
    (GdFinished /\ gd_s.series) =>
        /\ (gd_s.dtype = "int64" /\ gd_s.values # <<>>)
              => (gd_pc = "done" /\ gd_ret = "int64")
        /\ MixedTypes(gd_s.values)
              => (gd_pc = "done" /\ gd_ret = "object")
        /\ gd_s.values = <<>>
              => (gd_pc = "done" /\ gd_ret = "object")

\* the categories get_dftype names by the type of the values
Categories == {"str", "json", "ndarray", "Timestamp", "Timedelta"}

\* C14: for a non-empty column whose dtype is not numeric, if all values
\* share the type of the first non-null value the result is that type's
\* category; if they are mixed the numeric check decides: 'float64' when
\* every value converts to a number, else 'object'.
C14_FirstValueCategory ==
    (GdFinished /\ gd_variant = "current" /\ gd_s.series
        /\ gd_s.dtype = "object" /\ first_valid_index(gd_s.values) # 0) =>
        LET K == PyType(gd_s.values[first_valid_index(gd_s.values)]) IN
        K \in Categories =>
            /\ gd_pc = "done"
            /\ gd_ret =
                 IF \A i \in DOMAIN gd_s.values : PyType(gd_s.values[i]) = K
                 THEN K
                 ELSE IF to_numeric_ok(gd_s.values) THEN "float64"
                 ELSE "object"

(***************************************************************************)
(* Claims about srun (checked under SpecSrun)                              *)
(***************************************************************************)
SrFinished == sr_pc \in {"done", "raised"}

\* C15: srun runs the async function to completion and returns the
\* function's result, whether the function finishes without suspending or
\* suspends at one or more of its await points before it returns.
C15_SrunReturnsResult ==
    (SrFinished /\ sr_accepts /\ sr_outcome.kind = "return") =>
        /\ sr_pc = "done"
        /\ core = "finished"
        /\ core_pos = Len(sr_awaits)
        /\ sr_ret = ReturnValue(sr_outcome.value)

(***************************************************************************)
(* Claims about read_csv_asyn (checked under SpecReadCsv)                  *)
(***************************************************************************)
RcExited(t) == rc_pc[t] = "raised"

\* C16: a CSV read acquires the read lock on the path before its first raw
\* read and holds it until the data has been read; whenever a read has
\* exited, by return or by failure, it has held the lock and holds it no
\* longer, and only calls that are under way hold the lock.
C16_ReadUnderLock ==
    /\ \A t \in rc_lock : rc_pc[t] \notin {"none", "created", "raised"}
    /\ \A t \in Readers : RcExited(t) => (t \in rc_acquired /\ t \notin rc_lock)

====
